---------------------------- MODULE Spec2Model ----------------------------
(***************************************************************************)
(* Model of src/stock_ranking.py: the NASDAQ-100 momentum ranking          *)
(* (process_stock_data with its cascade get_top_stocks /                   *)
(* get_ultra_top_stocks), the date-keyed history (load_history,            *)
(* update_history, save_history) and analyze_ranking_changes, as main()    *)
(* chains them.                                                            *)
(*                                                                         *)
(* Three specifications share the variables:                               *)
(*   SpecRank     one call of process_stock_data on a downloaded frame     *)
(*   SpecHist     successive runs of main() against the history file       *)
(*   SpecAnalyze  analyze_ranking_changes applied to a history             *)
(*                                                                         *)
(* Encodings.  A symbol is its column position 1..N in the downloaded      *)
(* frame.  A float is a positive integer; NaN is the value NaN.  A date    *)
(* key "%Y-%m-%d" is its day number: for four-digit years the string       *)
(* order that sorted() uses is the calendar order.                           *)
(***************************************************************************)
EXTENDS Integers, Sequences, FiniteSets, TLC

VARIABLES
    \* ---- process_stock_data ----
    symbols,         \* the symbols argument: the sequence of requested symbols
    df,              \* the Close frame: column -> [hasNaN, monthly]
    columns,         \* df.columns, in column order
    mtl,             \* monthly gross returns: column -> sequence of factors
    ret_12, ret_6, ret_3, ret_1,   \* the rolling products at latest_date
    top_50_stocks,   \* get_top_stocks' local (Stage A)
    top_30_stocks,   \* get_top_stocks' local (Stage B)
    top_10,          \* process_stock_data's local top_10
    ultra_top_5,     \* process_stock_data's local ultra_top_5
    result,          \* what process_stock_data returned (None or the dict)
    rpc,             \* position inside process_stock_data
    exit,            \* observation: the return statement process_stock_data took
    \* ---- main: history ----
    file,            \* data/rankings_history.json on disk
    history,         \* main's local history
    nasdaq_result,   \* main's local nasdaq_result
    today,           \* the day datetime.now() falls on
    pc,              \* position inside main
    fileAtLoad,      \* observation: the file as load_history found it
    fileAtSave,      \* observation: the file as save_history found it
    saveOutcome,     \* observation: "ok", or "error" when save_history's except ran
    crashedIn,       \* observation: where the process died, if it did
    calls,           \* observation: today's last two update_history calls
    diff             \* what analyze_ranking_changes printed, line by line

rankVars == <<symbols, df, columns, mtl, ret_12, ret_6, ret_3, ret_1,
              top_50_stocks, top_30_stocks, top_10, ultra_top_5, result, rpc,
              exit>>
histVars == <<file, history, nasdaq_result, today, pc, fileAtLoad, fileAtSave,
              saveOutcome, crashedIn, calls, diff>>
vars == <<rankVars, histVars>>

\* Python's None, where a dict may stand instead
None == [none |-> TRUE]
NaN == 0

\* data/rankings_history.json: absent, valid JSON holding `data`, or something
\* json.load rejects (corrupt: found so by the first run; empty: truncated by
\* open(.., "w"); partial: a prefix of a dump)
NoFile == [kind |-> "absent", data |-> <<>>]
ValidFile(h) == [kind |-> "valid", data |-> h]
BrokenFile(k) == [kind |-> k, data |-> <<>>]
Unset == [kind |-> "unset", data |-> <<>>]

Min(a, b) == IF a < b THEN a ELSE b
Range(s) == {s[k] : k \in 1..Len(s)}

-----------------------------------------------------------------------------
(* Bounds of the model *)

MaxSymbols == 58     \* columns of the downloaded frame: 0..MaxSymbols
MaxMonths == 13      \* rows of the monthly frame: 0..MaxMonths
MaxSeed == 3         \* the downloaded frames tried per shape: 0..MaxSeed
MaxLoaded == 32      \* date keys of the history file the first run finds
MaxAdvance == 1      \* days the clock advances over the runs
MaxAnalyzeDays == 3  \* date keys of the histories analyze_ranking_changes is tried on

(* Program constants *)

MinSymbols == 5      \* remaining_symbols < 5
Top50 == 50          \* min(50, available_stocks)
Top30 == 30          \* min(30, available_stocks)
Top10 == 10          \* n_top of get_top_stocks; min(10, available_stocks)
UltraTop == 5        \* n_top of get_ultra_top_stocks
RetentionLimit == 30 \* len(sorted_dates) > 30

-----------------------------------------------------------------------------
(* pandas / numpy *)

\* np.prod of a window without NaN
RECURSIVE Prod(_)
Prod(w) == IF w = <<>> THEN 1 ELSE Head(w) * Prod(Tail(w))

\* get_rolling_ret(mtl, n).loc[latest_date] for one column: rolling(n) needs n
\* rows, and np.prod over a window holding a NaN is NaN
GetRollingRet(col, n) ==
    IF Len(col) < n THEN NaN
    ELSE LET w == SubSeq(col, Len(col) - n + 1, Len(col))
         IN  IF \E k \in 1..n : w[k] = NaN THEN NaN ELSE Prod(w)

\* series.dropna(), as the sequence of the labels kept
DropNa(series, index) == SelectSeq(index, LAMBDA a : series[a] # NaN)

\* keep='last': position of the last largest value
LastMax(series, index) ==
    CHOOSE k \in 1..Len(index) :
        /\ \A j \in 1..Len(index) : series[index[j]] <= series[index[k]]
        /\ \A j \in (k + 1)..Len(index) : series[index[j]] < series[index[k]]

\* position of the first largest value of a non-empty index
FirstMax(series, index) ==
    CHOOSE k \in 1..Len(index) :
        /\ \A j \in 1..Len(index) : series[index[j]] <= series[index[k]]
        /\ \A j \in 1..(k - 1) : series[index[j]] < series[index[k]]

\* descending order, equal values in order of appearance
RECURSIVE SortDesc(_, _)
SortDesc(series, index) ==
    IF index = <<>> THEN <<>>
    ELSE LET k == FirstMax(series, index)
         IN  <<index[k]>> \o
             SortDesc(series, SubSeq(index, 1, k - 1) \o
                              SubSeq(index, k + 1, Len(index)))

\* series.loc[date, index].nlargest(n).index (keep='first'): nothing for
\* n <= 0; otherwise the non-NaN labels in descending order, ties in order of
\* appearance (the order pandas documents for keep='first'), then the NaN
\* labels, cut to n
NLargest(series, index, n) ==
    IF n <= 0 THEN <<>>
    ELSE LET dropped == DropNa(series, index)
             nan_index == SelectSeq(index, LAMBDA a : series[a] = NaN)
             all == SortDesc(series, dropped) \o nan_index
         IN  SubSeq(all, 1, Min(n, Len(all)))

-----------------------------------------------------------------------------
(* process_stock_data *)

\* len(ret_12.loc[date].dropna())
AvailableStocks(r12, cols) == Len(DropNa(r12, cols))

\* get_top_stocks' three selections
TopStocksStageA(r12, cols) ==
    NLargest(r12, cols, Min(Top50, AvailableStocks(r12, cols)))

TopStocksStageB(r12, r6, cols) ==
    NLargest(r6, TopStocksStageA(r12, cols), Min(Top30, AvailableStocks(r12, cols)))

GetTopStocks(r12, r6, r3, cols, n_top) ==
    LET available_stocks == AvailableStocks(r12, cols)
        n == IF available_stocks < n_top THEN available_stocks ELSE n_top
    IN  NLargest(r3, TopStocksStageB(r12, r6, cols), n)

\* the 1-month ranking taken over the Stage-B pool, the 3-month stage left out
GetUltraTopStocksFromStageB(r12, r6, r3, r1, cols, n_top) ==
    LET available_stocks == AvailableStocks(r12, cols)
        n == IF available_stocks < n_top THEN available_stocks ELSE n_top
        s50 == NLargest(r12, cols, Min(Top50, available_stocks))
        s30 == NLargest(r6, s50, Min(Top30, available_stocks))
    IN  NLargest(r1, s30, n)

\* get_ultra_top_stocks: its own copy of the cascade, one stage longer
GetUltraTopStocks(r12, r6, r3, r1, cols, n_top) ==
    LET available_stocks == AvailableStocks(r12, cols)
        n == IF available_stocks < n_top THEN available_stocks ELSE n_top
        t50 == Min(Top50, available_stocks)
        t30 == Min(Top30, available_stocks)
        t10 == Min(Top10, available_stocks)
        s50 == NLargest(r12, cols, t50)
        s30 == NLargest(r6, s50, t30)
        s10 == NLargest(r3, s30, t10)
    IN  NLargest(r1, s10, n)


-----------------------------------------------------------------------------
(* The downloaded frames tried.  A column of the Close frame is kept as     *)
(* what the code reads of it: whether it holds a NaN price (dropna(axis=1)  *)
(* drops it) and the monthly gross returns that pct_change, resample and    *)
(* prod derive from it.  A monthly factor is NaN where a zero quote inside  *)
(* the month makes the product 0 * inf.                                     *)

\* seeds 1, 2 (mod 4): columns 1, 2, 5, 6, ... hold a missing price
HasGap(s, i) == s % 4 \in {1, 2} /\ i % 4 \in {1, 2}

\* seeds 2, 3 (mod 4): every third (seed 2) or seventh (seed 3) column holds
\* one NaN month, 0 to 13 months before the last row
NaNMonth(s, i, rows) ==
    LET stride == IF s % 4 = 2 THEN 3 ELSE 7
    IN  IF s % 4 \in {2, 3} /\ i % stride = 0
        THEN rows - ((i * 5 + (i \div 7)) % 14)
        ELSE 0

Factor(s, i, m, rows) ==
    IF m = NaNMonth(s, i, rows) THEN NaN
    ELSE 1 + ((i * m + (i \div 3) * (m + s) + (i \div 7) + s * m
                 + (m \div 4) * i * i) % 5)

Frame(n, rows, s) ==
    [i \in 1..n |-> [hasNaN |-> HasGap(s, i),
                     monthly |-> [m \in 1..rows |-> Factor(s, i, m, rows)]]]

-----------------------------------------------------------------------------
(* process_stock_data, step by step *)

RankIdle ==
    /\ df = <<>> /\ columns = <<>> /\ mtl = <<>>
    /\ ret_12 = <<>> /\ ret_6 = <<>> /\ ret_3 = <<>> /\ ret_1 = <<>>
    /\ top_50_stocks = <<>> /\ top_30_stocks = <<>>
    /\ top_10 = <<>> /\ ultra_top_5 = <<>>
    /\ result = None
    /\ exit = ""

\* main() is not running
HistIdle ==
    /\ file = NoFile /\ history = <<>> /\ nasdaq_result = None
    /\ today = 0 /\ pc = "idle"
    /\ fileAtLoad = Unset /\ fileAtSave = Unset
    /\ saveOutcome = "" /\ crashedIn = ""
    /\ calls = <<>> /\ diff = <<>>

RankInit ==
    /\ \E n \in 0..MaxSymbols : symbols = [i \in 1..n |-> i]
    /\ RankIdle
    /\ rpc = "start"
    /\ HistIdle

\* if not symbols: return None
NoSymbols ==
    /\ rpc = "start" /\ symbols = <<>>
    /\ result' = None
    /\ exit' = "no_symbols"
    /\ rpc' = "done"
    /\ UNCHANGED <<symbols, df, columns, mtl, ret_12, ret_6, ret_3, ret_1,
                   top_50_stocks, top_30_stocks, top_10, ultra_top_5>>
    /\ UNCHANGED histVars

\* yf.download(symbols, ...)['Close'] succeeds within max_retries tries
Download ==
    /\ rpc = "start" /\ symbols # <<>>
    /\ \E rows \in 0..MaxMonths, s \in 0..MaxSeed :
           df' = Frame(Len(symbols), rows, s)
    /\ columns' = symbols
    /\ rpc' = "clean"
    /\ UNCHANGED <<symbols, mtl, ret_12, ret_6, ret_3, ret_1,
                   top_50_stocks, top_30_stocks, top_10, ultra_top_5, result,
                   exit>>
    /\ UNCHANGED histVars

\* the last try raises too: raise download_error, caught by the outer except
DownloadError ==
    /\ rpc = "start" /\ symbols # <<>>
    /\ result' = None
    /\ exit' = "download_error"
    /\ rpc' = "done"
    /\ UNCHANGED <<symbols, df, columns, mtl, ret_12, ret_6, ret_3, ret_1,
                   top_50_stocks, top_30_stocks, top_10, ultra_top_5>>
    /\ UNCHANGED histVars

\* a gate one symbol too low
TooFewOffByOne(remaining_symbols) == remaining_symbols < MinSymbols - 1

\* if remaining_symbols < 5
TooFew(remaining_symbols) == remaining_symbols < MinSymbols

\* df = df.dropna(axis=1); return None under 5 remaining columns
CleanData ==
    /\ rpc = "clean"
    /\ LET kept == SelectSeq(columns, LAMBDA c : ~df[c].hasNaN)
       IN  /\ columns' = kept
           /\ df' = [c \in Range(kept) |-> df[c]]
           /\ IF TooFew(Len(kept))
              THEN /\ result' = None
                   /\ exit' = "too_few"
                   /\ rpc' = "done"
              ELSE /\ UNCHANGED <<result, exit>>
                   /\ rpc' = "returns"
    /\ UNCHANGED <<symbols, mtl, ret_12, ret_6, ret_3, ret_1,
                   top_50_stocks, top_30_stocks, top_10, ultra_top_5>>
    /\ UNCHANGED histVars

\* mtl, the four rolling returns and latest_date = mtl.index[-1], which raises
\* IndexError on a monthly frame without rows (outer except: return None)
MonthlyReturns ==
    /\ rpc = "returns"
    /\ LET m == [c \in Range(columns) |-> df[c].monthly]
       IN  /\ mtl' = m
           /\ IF \A c \in Range(columns) : Len(m[c]) = 0
              THEN /\ result' = None
                   /\ exit' = "exception"
                   /\ rpc' = "done"
                   /\ UNCHANGED <<ret_12, ret_6, ret_3, ret_1>>
              ELSE /\ ret_12' = [c \in Range(columns) |-> GetRollingRet(m[c], 12)]
                   /\ ret_6' = [c \in Range(columns) |-> GetRollingRet(m[c], 6)]
                   /\ ret_3' = [c \in Range(columns) |-> GetRollingRet(m[c], 3)]
                   /\ ret_1' = [c \in Range(columns) |-> GetRollingRet(m[c], 1)]
                   /\ UNCHANGED <<result, exit>>
                   /\ rpc' = "top"
    /\ UNCHANGED <<symbols, df, columns, top_50_stocks, top_30_stocks,
                   top_10, ultra_top_5>>
    /\ UNCHANGED histVars

\* top_10 = get_top_stocks(latest_date, ret_12, ret_6, ret_3, 10); no statement
\* of its try block raises on a frame that has a latest_date
SelectTop ==
    /\ rpc = "top"
    /\ top_50_stocks' = TopStocksStageA(ret_12, columns)
    /\ top_30_stocks' = TopStocksStageB(ret_12, ret_6, columns)
    /\ top_10' = GetTopStocks(ret_12, ret_6, ret_3, columns, Top10)
    /\ rpc' = "ultra"
    /\ UNCHANGED <<symbols, df, columns, mtl, ret_12, ret_6, ret_3, ret_1,
                   ultra_top_5, result,
                   exit>>
    /\ UNCHANGED histVars

\* ultra_top_5 = get_ultra_top_stocks(latest_date, ret_12, ret_6, ret_3, ret_1, 5)
SelectUltra ==
    /\ rpc = "ultra"
    /\ ultra_top_5' = GetUltraTopStocks(ret_12, ret_6, ret_3, ret_1, columns, UltraTop)
    /\ rpc' = "build"
    /\ UNCHANGED <<symbols, df, columns, mtl, ret_12, ret_6, ret_3, ret_1,
                   top_50_stocks, top_30_stocks, top_10, result,
                   exit>>
    /\ UNCHANGED histVars

\* result = {...}; return result (index_name and last_updated, which nothing
\* downstream reads back, are not kept)
BuildResult ==
    /\ rpc = "build"
    /\ result' = [top_10 |-> top_10,
                  ultra_top_5 |-> ultra_top_5,
                  total_stocks_processed |-> Len(columns)]
    /\ exit' = "result"
    /\ rpc' = "done"
    /\ UNCHANGED <<symbols, df, columns, mtl, ret_12, ret_6, ret_3, ret_1,
                   top_50_stocks, top_30_stocks, top_10, ultra_top_5>>
    /\ UNCHANGED histVars

RankNext ==
    \/ NoSymbols
    \/ Download
    \/ DownloadError
    \/ CleanData
    \/ MonthlyReturns
    \/ SelectTop
    \/ SelectUltra
    \/ BuildResult

SpecRank == RankInit /\ [][RankNext]_vars

-----------------------------------------------------------------------------
(* The history: load_history, update_history, save_history *)

Max(S) == CHOOSE x \in S : \A y \in S : y <= x

\* sorted(history.keys(), reverse=True)
RECURSIVE SortedReverse(_)
SortedReverse(S) ==
    IF S = {} THEN <<>> ELSE <<Max(S)>> \o SortedReverse(S \ {Max(S)})

\* the value update_history stores under today's key
EntryOf(res) ==
    [nasdaq100 |->
        [ultra_top_5 |-> IF res # None THEN res.ultra_top_5 ELSE <<>>,
         top_10 |-> IF res # None THEN res.top_10 ELSE <<>>]]

\* the retention applied before today's entry is added
UpdateHistoryPruneFirst(h, res, day) ==
    LET sorted_dates == SortedReverse(DOMAIN h)
        kept == IF Len(sorted_dates) > RetentionLimit
                THEN Range(SubSeq(sorted_dates, 1, RetentionLimit))
                ELSE DOMAIN h
    IN  [d \in kept \cup {day} |-> IF d = day THEN EntryOf(res) ELSE h[d]]

\* history.setdefault(today, ...): an entry already stored for today stays
UpdateHistoryKeepFirst(h, res, day) ==
    LET h1 == [d \in DOMAIN h \cup {day} |-> IF d \in DOMAIN h THEN h[d] ELSE EntryOf(res)]
        sorted_dates == SortedReverse(DOMAIN h1)
    IN  IF Len(sorted_dates) > RetentionLimit
        THEN [d \in Range(SubSeq(sorted_dates, 1, RetentionLimit)) |-> h1[d]]
        ELSE h1

\* today's entry written only when there is a result
UpdateHistorySkipNone(h, res, day) ==
    LET h1 == IF res # None
              THEN [d \in DOMAIN h \cup {day} |-> IF d = day THEN EntryOf(res) ELSE h[d]]
              ELSE h
        sorted_dates == SortedReverse(DOMAIN h1)
    IN  IF Len(sorted_dates) > RetentionLimit
        THEN [d \in Range(SubSeq(sorted_dates, 1, RetentionLimit)) |-> h1[d]]
        ELSE h1

\* update_history(history, nasdaq_result) on the day `day`: the returned dict
UpdateHistory(h, res, day) ==
    LET h1 == [d \in DOMAIN h \cup {day} |-> IF d = day THEN EntryOf(res) ELSE h[d]]
        sorted_dates == SortedReverse(DOMAIN h1)
    IN  IF Len(sorted_dates) > RetentionLimit
        THEN LET dates_to_keep == SubSeq(sorted_dates, 1, RetentionLimit)
             IN  [d \in Range(dates_to_keep) |-> h1[d]]
        ELSE h1

\* load_history(): {} without a file and when json.load raises
LoadHistoryResult(f) == IF f.kind = "valid" THEN f.data ELSE <<>>

\* one line for a position of two ultra_top_5 lists
DiffLine(i, today_stock, yesterday_stock) ==
    IF today_stock # yesterday_stock
    THEN [pos |-> i, kind |-> "moved", from |-> yesterday_stock, to |-> today_stock]
    ELSE [pos |-> i, kind |-> "unchanged", from |-> today_stock, to |-> today_stock]

\* an asset counted as unchanged when yesterday's list holds it anywhere
AnalyzeDiffBySet(h) ==
    IF Cardinality(DOMAIN h) < 2 THEN <<>>
    ELSE LET dates == SortedReverse(DOMAIN h)
             t == h[dates[1]]
             y == h[dates[2]]
         IN  IF /\ "nasdaq100" \in DOMAIN t
                /\ "nasdaq100" \in DOMAIN y
                /\ t.nasdaq100.ultra_top_5 # <<>>
                /\ y.nasdaq100.ultra_top_5 # <<>>
             THEN LET today_nasdaq == t.nasdaq100.ultra_top_5
                      yesterday_nasdaq == y.nasdaq100.ultra_top_5
                  IN  [i \in 1..Min(Len(today_nasdaq), Len(yesterday_nasdaq)) |->
                          IF today_nasdaq[i] \in Range(yesterday_nasdaq)
                          THEN DiffLine(i, today_nasdaq[i], today_nasdaq[i])
                          ELSE DiffLine(i, today_nasdaq[i], yesterday_nasdaq[i])]
             ELSE <<>>

\* no len(history) < 2 guard, yesterday = dates[-1]
AnalyzeDiffNoGuard(h) ==
    IF DOMAIN h = {} THEN <<>>
    ELSE LET dates == SortedReverse(DOMAIN h)
             t == h[dates[1]]
             y == h[dates[Len(dates)]]
         IN  IF /\ "nasdaq100" \in DOMAIN t
                /\ "nasdaq100" \in DOMAIN y
                /\ t.nasdaq100.ultra_top_5 # <<>>
                /\ y.nasdaq100.ultra_top_5 # <<>>
             THEN LET today_nasdaq == t.nasdaq100.ultra_top_5
                      yesterday_nasdaq == y.nasdaq100.ultra_top_5
                  IN  [i \in 1..Min(Len(today_nasdaq), Len(yesterday_nasdaq)) |->
                          DiffLine(i, today_nasdaq[i], yesterday_nasdaq[i])]
             ELSE <<>>

\* analyze_ranking_changes(history): the per-position lines it prints (the two
\* header lines are not kept)
AnalyzeDiff(h) ==
    IF Cardinality(DOMAIN h) < 2 THEN <<>>
    ELSE LET dates == SortedReverse(DOMAIN h)
             t == h[dates[1]]
             y == h[dates[2]]
         IN  IF /\ "nasdaq100" \in DOMAIN t
                /\ "nasdaq100" \in DOMAIN y
                /\ t.nasdaq100.ultra_top_5 # <<>>
                /\ y.nasdaq100.ultra_top_5 # <<>>
             THEN LET today_nasdaq == t.nasdaq100.ultra_top_5
                      yesterday_nasdaq == y.nasdaq100.ultra_top_5
                  \* enumerate(zip(today_nasdaq, yesterday_nasdaq), 1)
                  IN  [i \in 1..Min(Len(today_nasdaq), Len(yesterday_nasdaq)) |->
                          DiffLine(i, today_nasdaq[i], yesterday_nasdaq[i])]
             ELSE <<>>

-----------------------------------------------------------------------------
(* main(), run after run.  What process_stock_data returns is drawn from    *)
(* ResultSamples here; SpecRank models how it is computed.                  *)

TiersA == [top_10 |-> <<1, 2, 3, 4, 5, 6, 7, 8, 9, 10>>,
           ultra_top_5 |-> <<1, 2, 3, 4, 5>>,
           total_stocks_processed |-> 50]
TiersB == [top_10 |-> <<2, 1, 3, 4, 5, 6, 7, 8, 9, 11>>,
           ultra_top_5 |-> <<2, 1, 3, 4, 5>>,
           total_stocks_processed |-> 50]
ResultSamples == {None, TiersA, TiersB}

FirstDay == MaxLoaded + 1

\* the entry a stored day holds in the file the first run finds
StoredEntry(d) ==
    IF d % 3 = 0 THEN EntryOf(TiersA)
    ELSE IF d % 3 = 1 THEN EntryOf(TiersB)
    ELSE EntryOf(None)

\* the numbers of date keys tried: few, and around the retention limit
LoadedSizes == {0, 1, 2} \cup ((RetentionLimit - 2)..MaxLoaded)

\* the k consecutive days ending on `last`
StoredHistory(k, last) == [d \in (last - k + 1)..last |-> StoredEntry(d)]

\* process_stock_data is not modelled step by step
RankUnused == symbols = <<>> /\ RankIdle /\ rpc = "unused"

HistInit ==
    /\ \/ file = NoFile
       \/ file = BrokenFile("corrupt")
       \/ \E k \in LoadedSizes : file = ValidFile(StoredHistory(k, FirstDay - 1))
    /\ history = <<>> /\ nasdaq_result = None
    /\ today = FirstDay /\ pc = "idle"
    /\ fileAtLoad = Unset /\ fileAtSave = Unset
    /\ saveOutcome = "" /\ crashedIn = ""
    /\ calls = <<>> /\ diff = <<>>
    /\ RankUnused

\* a new process runs main(); datetime.now() has not gone back, so no stored
\* key is later than today
StartRun ==
    /\ pc \in {"idle", "done", "crashed"}
    /\ \E t \in {today, today + 1} :
           /\ t <= FirstDay + MaxAdvance
           /\ today' = t
           /\ calls' = IF t = today THEN calls ELSE <<>>
    /\ history' = <<>> /\ nasdaq_result' = None /\ diff' = <<>>
    /\ fileAtLoad' = Unset /\ fileAtSave' = Unset
    /\ saveOutcome' = "" /\ crashedIn' = ""
    /\ pc' = "load"
    /\ UNCHANGED file
    /\ UNCHANGED rankVars

\* history = load_history()
LoadHistory ==
    /\ pc = "load"
    /\ history' = LoadHistoryResult(file)
    /\ fileAtLoad' = file
    /\ pc' = "process"
    /\ UNCHANGED <<file, nasdaq_result, today, fileAtSave, saveOutcome,
                   crashedIn, calls, diff>>
    /\ UNCHANGED rankVars

\* nasdaq_result = process_stock_data(nasdaq_symbols, "NASDAQ-100")
ProcessStockData ==
    /\ pc = "process"
    /\ nasdaq_result' \in ResultSamples
    /\ pc' = "update"
    /\ UNCHANGED <<file, history, today, fileAtLoad, fileAtSave, saveOutcome,
                   crashedIn, calls, diff>>
    /\ UNCHANGED rankVars

\* history = update_history(history, nasdaq_result)
UpdateHistoryStep ==
    /\ pc = "update"
    /\ history' = UpdateHistory(history, nasdaq_result, today)
    /\ calls' = (IF calls = <<>> THEN <<>> ELSE <<calls[Len(calls)]>>) \o
                <<[day |-> today, arg |-> history, data |-> nasdaq_result,
                   ret |-> history']>>
    /\ pc' = "save_open"
    /\ UNCHANGED <<file, nasdaq_result, today, fileAtLoad, fileAtSave,
                   saveOutcome, crashedIn, diff>>
    /\ UNCHANGED rankVars

\* save_history: open(history_file, "w") truncates the file
SaveOpen ==
    /\ pc = "save_open"
    /\ fileAtSave' = file
    /\ file' = BrokenFile("empty")
    /\ pc' = "save_dump"
    /\ UNCHANGED <<history, nasdaq_result, today, fileAtLoad, saveOutcome,
                   crashedIn, calls, diff>>
    /\ UNCHANGED rankVars

\* save_history: open raises (the file cannot be written); except prints
SaveOpenError ==
    /\ pc = "save_open"
    /\ fileAtSave' = file
    /\ saveOutcome' = "error"
    /\ pc' = "analyze"
    /\ UNCHANGED <<file, history, nasdaq_result, today, fileAtLoad,
                   crashedIn, calls, diff>>
    /\ UNCHANGED rankVars

\* save_history: json.dump writes everything and the with block closes the file
SaveDump ==
    /\ pc = "save_dump"
    /\ file' = ValidFile(history)
    /\ saveOutcome' = "ok"
    /\ pc' = "analyze"
    /\ UNCHANGED <<history, nasdaq_result, today, fileAtLoad, fileAtSave,
                   crashedIn, calls, diff>>
    /\ UNCHANGED rankVars

\* save_history: a write raises part way (disk full); what was written stays
SaveDumpError ==
    /\ pc = "save_dump"
    /\ \E k \in {"empty", "partial"} : file' = BrokenFile(k)
    /\ saveOutcome' = "error"
    /\ pc' = "analyze"
    /\ UNCHANGED <<history, nasdaq_result, today, fileAtLoad, fileAtSave,
                   crashedIn, calls, diff>>
    /\ UNCHANGED rankVars

\* analyze_ranking_changes(history)
AnalyzeRankingChanges ==
    /\ pc = "analyze"
    /\ diff' = AnalyzeDiff(history)
    /\ pc' = "finish"
    /\ UNCHANGED <<file, history, nasdaq_result, today, fileAtLoad, fileAtSave,
                   saveOutcome, crashedIn, calls>>
    /\ UNCHANGED rankVars

\* the rest of main(): the ranking file, the console report
Finish ==
    /\ pc = "finish"
    /\ pc' = "done"
    /\ UNCHANGED <<file, history, nasdaq_result, today, fileAtLoad, fileAtSave,
                   saveOutcome, crashedIn, calls, diff>>
    /\ UNCHANGED rankVars

\* the process dies (killed, power loss, an uncaught exception); during
\* json.dump what reached the disk is nothing or a prefix
Crash ==
    /\ pc \in {"load", "process", "update", "save_open", "save_dump",
               "analyze", "finish"}
    /\ IF pc = "save_dump"
       THEN \E k \in {"empty", "partial"} : file' = BrokenFile(k)
       ELSE file' = file
    /\ crashedIn' = pc
    /\ pc' = "crashed"
    /\ UNCHANGED <<history, nasdaq_result, today, fileAtLoad, fileAtSave,
                   saveOutcome, calls, diff>>
    /\ UNCHANGED rankVars

HistNext ==
    \/ StartRun
    \/ LoadHistory
    \/ ProcessStockData
    \/ UpdateHistoryStep
    \/ SaveOpen
    \/ SaveOpenError
    \/ SaveDump
    \/ SaveDumpError
    \/ AnalyzeRankingChanges
    \/ Finish
    \/ Crash

SpecHist == HistInit /\ [][HistNext]_vars

-----------------------------------------------------------------------------
(* analyze_ranking_changes on a history of its own *)

\* the ultra_top_5 lists tried: empty, full, full with two places swapped,
\* shorter ones
UltraSamples == {<<>>, <<1, 2, 3, 4, 5>>, <<1, 3, 2, 4, 5>>, <<1, 2, 3>>, <<6, 2>>}

\* an entry written while only the S&P 500 section was enabled
Sp500Entry == [sp500 |-> [ultra_top_5 |-> <<7, 8, 9>>, top_10 |-> <<7, 8, 9>>]]

AnalyzeEntries ==
    {[nasdaq100 |-> [ultra_top_5 |-> u, top_10 |-> u]] : u \in UltraSamples}
        \cup {Sp500Entry}

AnalyzeInit ==
    /\ \E days \in SUBSET (1..MaxAnalyzeDays) :
           history \in [days -> AnalyzeEntries]
    /\ file = NoFile /\ nasdaq_result = None
    /\ today = MaxAnalyzeDays /\ pc = "analyze"
    /\ fileAtLoad = Unset /\ fileAtSave = Unset
    /\ saveOutcome = "" /\ crashedIn = ""
    /\ calls = <<>> /\ diff = <<>>
    /\ RankUnused

AnalyzeNext == AnalyzeRankingChanges

SpecAnalyze == AnalyzeInit /\ [][AnalyzeNext]_vars

-----------------------------------------------------------------------------
(* The ranking claims, under SpecRank *)

Published == rpc = "done" /\ exit = "result"

\* C1: the published tiers are nested: every asset of ultra_top_5 is in
\* top_10, every asset of top_10 is in get_top_stocks' Stage-B pool, and every
\* Stage-B asset is in its Stage-A pool.
TiersNested ==
    Published =>
        /\ Range(result.ultra_top_5) \subseteq Range(result.top_10)
        /\ Range(result.top_10) \subseteq Range(top_30_stocks)
        /\ Range(top_30_stocks) \subseteq Range(top_50_stocks)
        /\ Range(top_50_stocks) \subseteq Range(columns)

\* every stage cuts its pool: more than 50 columns, 50, 30, 10 and 5 kept
TiersNestedWitness ==
    /\ Published
    /\ Len(columns) > Top50
    /\ Len(top_50_stocks) = Top50
    /\ Len(top_30_stocks) = Top30
    /\ Len(result.top_10) = Top10
    /\ Len(result.ultra_top_5) = UltraTop
    /\ Range(result.ultra_top_5) # Range(SubSeq(result.top_10, 1, UltraTop))

\* The reference selection of one stage: the eligible assets of `pool` (those
\* with a defined return), ranked by how many eligible assets come before
\* them (a larger return, or the same return and an earlier place in the
\* pool), cut to min(cap, number eligible).
RefStage(key, pool, cap) ==
    LET elig == {k \in 1..Len(pool) : key[pool[k]] # NaN}
        before(k) == {j \in elig : \/ key[pool[j]] > key[pool[k]]
                                   \/ key[pool[j]] = key[pool[k]] /\ j < k}
        rank == [k \in elig |-> Cardinality(before(k)) + 1]
        keep == Min(cap, Cardinality(elig))
    IN  [r \in 1..keep |-> pool[CHOOSE k \in elig : rank[k] = r]]

RefStageA == RefStage(ret_12, columns, Top50)
RefStageB == RefStage(ret_6, RefStageA, Top30)
RefTop10 == RefStage(ret_3, RefStageB, Top10)
RefUltraTop5 == RefStage(ret_1, RefTop10, UltraTop)

\* C5: the cascade output equals the reference four-stage selection: Stage A
\* the top min(50, |pool|) by defined 12-month return, Stage B the top
\* min(30, |pool|) of Stage A by 6-month return, top_10 the top min(10, |pool|)
\* of Stage B by 3-month return, ultra_top_5 the top min(5, |pool|) of top_10
\* by 1-month return, each in descending order with ties in first-occurrence
\* order, |pool| being the stage's number of eligible assets.
CascadeEqualsReference ==
    Published =>
        /\ top_50_stocks = RefStageA
        /\ top_30_stocks = RefStageB
        /\ result.top_10 = RefTop10
        /\ result.ultra_top_5 = RefUltraTop5

\* a frame where Stage A cuts at 50, some 12-month returns are undefined, and the
\* published top_10 holds two assets with the same 3-month return
CascadeEqualsReferenceWitness ==
    /\ Published
    /\ Len(top_50_stocks) = Top50
    /\ Len(top_50_stocks) < AvailableStocks(ret_12, columns)
    /\ Len(result.top_10) = Top10
    /\ \E c \in Range(columns) : ret_12[c] = NaN
    /\ \E j, k \in 1..Len(result.top_10) :
           j < k /\ ret_3[result.top_10[j]] = ret_3[result.top_10[k]]

\* the data gate was applied (the frame was downloaded and cleaned)
Gated == rpc = "done" /\ exit \in {"too_few", "exception", "result"}

\* Stage A has no eligible asset: the returns were computed and every
\* 12-month return is NaN
StageAEmpty ==
    /\ rpc = "done" /\ exit = "result"
    /\ \A c \in Range(columns) : ret_12[c] = NaN

-----------------------------------------------------------------------------
(* The history claims, under SpecHist *)

\* C2: after any sequence of update_history calls, from any loaded history,
\* the returned history holds at most 30 date keys.
RetentionBound ==
    /\ \A i \in 1..Len(calls) : Cardinality(DOMAIN calls[i].ret) <= RetentionLimit
    /\ pc \in {"save_open", "save_dump", "analyze", "finish", "done"} =>
           Cardinality(DOMAIN history) <= RetentionLimit

\* a call on a loaded history of more than 30 keys returned exactly 30, the
\* newest ones
RetentionBoundWitness ==
    \E i \in 1..Len(calls) :
        /\ Cardinality(DOMAIN calls[i].arg) > RetentionLimit
        /\ Cardinality(DOMAIN calls[i].ret) = RetentionLimit
        /\ calls[i].day \in DOMAIN calls[i].ret
        /\ \E d \in DOMAIN calls[i].arg : d \notin DOMAIN calls[i].ret

\* update_history called again on the same day with the history the call
\* before returned
SameDayRepeat ==
    /\ Len(calls) = 2
    /\ calls[1].day = calls[2].day
    /\ calls[2].arg = calls[1].ret

\* C3: calling update_history twice with the same date key leaves one entry
\* for that date, holding the later call's data, and as many keys as after the
\* first call.
SameDayUpsert ==
    SameDayRepeat =>
        LET day == calls[2].day
            later == calls[2].data
        IN  /\ day \in DOMAIN calls[2].ret
            /\ calls[2].ret[day].nasdaq100.top_10 =
                   (IF later = None THEN <<>> ELSE later.top_10)
            /\ calls[2].ret[day].nasdaq100.ultra_top_5 =
                   (IF later = None THEN <<>> ELSE later.ultra_top_5)
            /\ DOMAIN calls[2].ret = DOMAIN calls[1].ret

\* the second call of the day brought other tiers than the first, on a full
\* history
SameDayUpsertWitness ==
    /\ SameDayRepeat
    /\ calls[1].data # None /\ calls[2].data # None
    /\ calls[1].data # calls[2].data
    /\ calls[2].ret[calls[2].day] # calls[1].ret[calls[1].day]
    /\ Cardinality(DOMAIN calls[1].ret) = RetentionLimit

\* C4 as claimed: if the process dies or the write fails during save_history,
\* the file is afterwards the complete previous content or the complete new
\* content.  Stated for a previous content that was a valid history.
SaveIsAtomic ==
    (/\ fileAtSave.kind = "valid"
     /\ \/ pc = "crashed" /\ crashedIn = "save_dump"
        \/ saveOutcome = "error")
    => file = fileAtSave \/ file = ValidFile(history)

\* C9 as claimed: a run that finds the history file unreadable ends with a
\* fresh history holding today's entry alone, and with the unreadable file as
\* it found it.
CorruptFileUntouched ==
    (fileAtLoad.kind = "corrupt" /\ pc = "done") =>
        /\ DOMAIN history = {today}
        /\ file = fileAtLoad

\* C10: update_history writes today's entry also when the result is None,
\* with empty top_10 and ultra_top_5, over any entry stored for today; every
\* other retained key keeps its entry.
TodayAlwaysWritten ==
    \A i \in 1..Len(calls) :
        LET c == calls[i]
        IN  /\ c.day \in DOMAIN c.ret
            /\ c.ret[c.day].nasdaq100.top_10 =
                   (IF c.data = None THEN <<>> ELSE c.data.top_10)
            /\ c.ret[c.day].nasdaq100.ultra_top_5 =
                   (IF c.data = None THEN <<>> ELSE c.data.ultra_top_5)
            /\ \A d \in DOMAIN c.ret \ {c.day} :
                   d \in DOMAIN c.arg /\ c.ret[d] = c.arg[d]

\* a run without a result, after a run of the same day had stored tiers:
\* the day's tiers are gone, the other days' entries are as they were
TodayAlwaysWrittenWitness ==
    /\ SameDayRepeat
    /\ calls[1].data # None
    /\ calls[2].data = None
    /\ calls[2].arg[calls[2].day].nasdaq100.top_10 # <<>>
    /\ calls[2].ret[calls[2].day].nasdaq100.top_10 = <<>>
    /\ Cardinality(DOMAIN calls[2].ret) > 1

-----------------------------------------------------------------------------
(* The analyzer claims, under SpecAnalyze *)

Analyzed == pc = "finish"

\* the ultra_top_5 list of the k-th most recent entry
UltraOfRecent(k) ==
    LET newest == Max(DOMAIN history)
        d == IF k = 1 THEN newest ELSE Max(DOMAIN history \ {newest})
    IN  history[d].nasdaq100.ultra_top_5

BothHaveNasdaq ==
    LET newest == Max(DOMAIN history)
    IN  /\ "nasdaq100" \in DOMAIN history[newest]
        /\ "nasdaq100" \in DOMAIN history[Max(DOMAIN history \ {newest})]

\* the lines printed for position i
LinesAt(i) == {k \in 1..Len(diff) : diff[k].pos = i}

\* C7 as claimed: with two entries or more, every position of the latest
\* entry's ultra_top_5 gets exactly one line: unchanged if the previous entry
\* holds the same asset at that position, moved otherwise, also when the lists
\* differ in length or one is empty.
EveryPositionReported ==
    (Analyzed /\ Cardinality(DOMAIN history) >= 2 /\ BothHaveNasdaq) =>
        LET latest == UltraOfRecent(1)
            previous == UltraOfRecent(2)
        IN  \A i \in 1..Len(latest) :
                /\ Cardinality(LinesAt(i)) = 1
                /\ \A k \in LinesAt(i) :
                       /\ diff[k].to = latest[i]
                       /\ diff[k].kind = "unchanged" <=>
                              (i <= Len(previous) /\ previous[i] = latest[i])

\* C7 as amended: with two entries or more, the two most recent date keys are
\* compared; when both hold a nasdaq100 section with a non-empty ultra_top_5,
\* every position i from 1 to the length of the shorter list gets exactly one
\* line, unchanged if both lists hold the same asset at i and
\* moved(previous, latest) otherwise, by position only; positions beyond the
\* shorter list get no line, and nothing is printed when either list is empty
\* or a section is missing.
CommonPositionsReported ==
    (Analyzed /\ Cardinality(DOMAIN history) >= 2) =>
        IF BothHaveNasdaq /\ UltraOfRecent(1) # <<>> /\ UltraOfRecent(2) # <<>>
        THEN LET latest == UltraOfRecent(1)
                 previous == UltraOfRecent(2)
                 common == Min(Len(latest), Len(previous))
             IN  /\ Len(diff) = common
                 /\ \A i \in 1..common :
                        /\ diff[i].pos = i
                        /\ latest[i] = previous[i] =>
                               diff[i].kind = "unchanged" /\ diff[i].to = latest[i]
                        /\ latest[i] # previous[i] =>
                               /\ diff[i].kind = "moved"
                               /\ diff[i].from = previous[i]
                               /\ diff[i].to = latest[i]
        ELSE diff = <<>>

\* lists of 5 and of 3 assets compared: three lines, one of them unchanged,
\* one of them a move of an asset that the previous list holds elsewhere
CommonPositionsReportedWitness ==
    /\ Analyzed /\ Cardinality(DOMAIN history) >= 2 /\ BothHaveNasdaq
    /\ Len(UltraOfRecent(1)) = 5 /\ Len(UltraOfRecent(2)) = 3
    /\ Len(diff) = 3
    /\ \E i, j \in 1..3 :
           /\ diff[i].kind = "unchanged"
           /\ diff[j].kind = "moved"
           /\ diff[j].to \in Range(UltraOfRecent(2))

\* C8: with 0 or 1 entries analyze_ranking_changes prints no line and leaves
\* the history as it is.
NothingBelowTwoEntries ==
    [][(pc = "analyze" /\ pc' = "finish" /\ Cardinality(DOMAIN history) < 2) =>
           (diff' = <<>> /\ history' = history)]_vars

\* a history of one entry with a full ultra_top_5 was analyzed
NothingBelowTwoEntriesWitness ==
    /\ Analyzed
    /\ Cardinality(DOMAIN history) = 1
    /\ \A d \in DOMAIN history :
           "nasdaq100" \in DOMAIN history[d] /\ Len(history[d].nasdaq100.ultra_top_5) = 5
    /\ diff = <<>>

=============================================================================
